---- MODULE Spec2Model ----
(***************************************************************************)
(* Model of streamlit_app.py: the "Analyze" run of main() and the two      *)
(* functions it calls, separate_threads and analyze_thread.                *)
(*                                                                         *)
(* Strings are sequences of one-character strings.  A Python value is a    *)
(* record [kind, val]: a list of strings, a string, or None.  The page is  *)
(* the sequence `out` of st.* calls in the order the script made them.     *)
(* A provider call (openai / anthropic / replicate) is a step that issues  *)
(* the request followed by a step in which it returns text or raises.      *)
(***************************************************************************)
EXTENDS Integers, Sequences, FiniteSets, TLC

VARIABLES
    model,      \* the provider identity: main's selectbox value / the argument
    mpc,        \* position of main(): "start", "sep", "loop", "ana", "done", "crashed"
    threads,    \* main's local `threads` (value returned by separate_threads)
    i,          \* main's loop counter of enumerate(threads, 1)
    exc,        \* the exception that left main() uncaught, or "none"
    out,        \* the st.* calls made so far, in order
    fn,         \* the function whose frame is active, or "none"
    fpc,        \* position inside that function
    doc,        \* separate_threads: `content` as passed by the caller
    content,    \* separate_threads: local `content` after lines 50-53
    thread,     \* analyze_thread: the `thread` argument
    ret,        \* value returned by the last call that returned
    inflight,   \* the provider call pending: "none", "seg" or "ana"
    calls,      \* provider calls issued since the run began
    fcalls,     \* provider calls issued by the active invocation
    segDone,    \* history: the segmentation provider call returned or raised
    segFailed,  \* history: the segmentation provider call raised
    segText,    \* history: text the segmentation provider call returned
    anaStarted, \* history: indices i for which analyze_thread was invoked
    anaFailed   \* history: indices i whose analysis provider call raised

vars == <<model, mpc, threads, i, exc, out, fn, fpc, doc, content, thread, ret,
          inflight, calls, fcalls, segDone, segFailed, segText, anaStarted,
          anaFailed>>

----------------------------------------------------------------------------
(* Bounds of the model *)

\* documents range over lengths 0 and limit-MaxOver .. limit+MaxOver
MaxOver == 1
\* longest text the segmentation provider call returns
MaxRespLen == 5

----------------------------------------------------------------------------
(* Program constants and values *)

max_tokens == 4000

\* max_tokens * 4, the length tested and cut to in separate_threads
limitChars == max_tokens * 4

\* the options of the "Select Model" selectbox, the identities the branches test
KnownModels == {"OpenAI", "Claude", "LLaMA"}

\* an identity none of the if/elif branches matches
AnyModels == KnownModels \cup {"Unknown"}

NL == "\n"

NoneVal == [kind |-> "None", val |-> <<>>]
ListVal(s) == [kind |-> "list", val |-> s]
StrVal(s) == [kind |-> "str", val |-> s]
Unset == [kind |-> "unset", val |-> <<>>]

\* one st.* call
Ev(kind, idx, text) == [kind |-> kind, idx |-> idx, text |-> text]

----------------------------------------------------------------------------
(* Inputs *)

\* a document of n characters; the characters vary with the position
MkDoc(n) == [k \in 1..n |-> IF k % 3 = 0 THEN "y" ELSE "x"]

DocLens == {0} \cup ((limitChars - MaxOver)..(limitChars + MaxOver))

Docs == {MkDoc(n) : n \in DocLens}

RespChars == {"a", NL}

\* texts the provider may return to the segmentation request
Responses == UNION {[1..n -> RespChars] : n \in 0..MaxRespLen}

\* text the provider returns to an analysis request
GenTexts == {<<"o", "k">>}

\* thread arguments of a direct call of analyze_thread
ThreadArgs == {<<>>, <<"a">>}

----------------------------------------------------------------------------
(* Pure functions *)

HasNL(s) == \E p \in 1..Len(s) : s[p] = NL

FirstNL(s) == CHOOSE p \in 1..Len(s) : s[p] = NL /\ \A q \in 1..(p - 1) : s[q] # NL

\* a split that drops the empty entries
RECURSIVE SplitDropBlank(_)
SplitDropBlank(s) ==
    IF ~HasNL(s)
    THEN IF s = <<>> THEN <<>> ELSE <<s>>
    ELSE LET p == FirstNL(s)
             head == SubSeq(s, 1, p - 1)
         IN  (IF head = <<>> THEN <<>> ELSE <<head>>)
                 \o SplitDropBlank(SubSeq(s, p + 1, Len(s)))

\* str.splitlines(): no entry for the empty text or after a final line break
RECURSIVE SplitLines(_)
SplitLines(s) ==
    IF s = <<>> THEN <<>>
    ELSE IF ~HasNL(s) THEN <<s>>
    ELSE LET p == FirstNL(s)
         IN  <<SubSeq(s, 1, p - 1)>> \o SplitLines(SubSeq(s, p + 1, Len(s)))

\* str.split("\n"): the pieces between the line breaks, empty ones included
RECURSIVE Split(_)
Split(s) ==
    IF ~HasNL(s) THEN <<s>>
    ELSE LET p == FirstNL(s)
         IN  <<SubSeq(s, 1, p - 1)>> \o Split(SubSeq(s, p + 1, Len(s)))

\* a cut to max_tokens characters, the factor 4 forgotten
TruncateTokens(c) ==
    IF Len(c) > limitChars THEN SubSeq(c, 1, max_tokens) ELSE c

\* lines 51-52: content = content[:max_tokens * 4] when it is longer
Truncate(c) ==
    IF Len(c) > limitChars THEN SubSeq(c, 1, limitChars) ELSE c

\* line 51: the test that guards the cut and the st.warning
WasTruncated(c) == Len(c) > limitChars

\* a handler that returns one blank thread
SepExceptReturnBlank == ListVal(<< <<>> >>)

\* line 103: the value separate_threads returns from its except clause
SepExceptReturn == ListVal(<<>>)

----------------------------------------------------------------------------
(* Initial states *)

InitFrame ==
    /\ fn = "none" /\ fpc = "none"
    /\ doc = <<>> /\ content = <<>> /\ thread = <<>>
    /\ ret = Unset
    /\ inflight = "none" /\ calls = 0 /\ fcalls = 0
    /\ segDone = FALSE /\ segFailed = FALSE /\ segText = <<>>
    /\ anaStarted = {} /\ anaFailed = {}
    /\ threads = Unset /\ i = 0 /\ exc = "none" /\ out = <<>>

\* main() up to line 195: a file is uploaded and a model is selected
Init ==
    /\ model \in KnownModels
    /\ mpc = "start"
    /\ InitFrame

\* a caller other than main() about to call one of the two functions
InitCall ==
    /\ model \in AnyModels
    /\ mpc = "caller"
    /\ InitFrame

----------------------------------------------------------------------------
(* separate_threads *)

hist == <<segDone, segFailed, segText, anaStarted, anaFailed>>

mainVars == <<mpc, threads, i, exc>>

\* lines 50-53: the cut to max_tokens * 4 characters and its warning
SepTruncate ==
    /\ fn = "separate_threads" /\ fpc = "entry"
    /\ content' = Truncate(content)
    /\ out' = IF WasTruncated(content)
              THEN Append(out, Ev("warning", 0, <<>>))
              ELSE out
    /\ fpc' = "try"
    /\ UNCHANGED <<model, mainVars, fn, doc, thread, ret, inflight, calls,
                   fcalls, hist>>

\* lines 67-100: the branch on `model` issues the provider call; when no
\* branch matches, the try block ends and the function returns None
SepIssue ==
    /\ fn = "separate_threads" /\ fpc = "try"
    /\ IF model \in KnownModels
       THEN /\ inflight' = "seg"
            /\ calls' = calls + 1
            /\ fcalls' = fcalls + 1
            /\ fpc' = "await"
            /\ UNCHANGED <<ret, doc, content>>
       ELSE /\ ret' = NoneVal
            /\ fpc' = "returned"
            /\ doc' = <<>> /\ content' = <<>>
            /\ UNCHANGED <<inflight, calls, fcalls>>
    /\ UNCHANGED <<model, mainVars, out, fn, thread, hist>>

\* lines 81, 90, 100: the provider returns text; the function returns its split
SepProviderReturn ==
    /\ fn = "separate_threads" /\ fpc = "await" /\ inflight = "seg"
    /\ \E t \in Responses :
          /\ ret' = ListVal(Split(t))
          /\ segText' = t
    /\ segDone' = TRUE
    /\ inflight' = "none"
    /\ fpc' = "returned"
    /\ doc' = <<>> /\ content' = <<>>
    /\ UNCHANGED <<model, mainVars, out, fn, thread, calls, fcalls, segFailed,
                   anaStarted, anaFailed>>

\* a handler that issues the request again
SepProviderRaiseRetry ==
    /\ fn = "separate_threads" /\ fpc = "await" /\ inflight = "seg"
    /\ out' = Append(out, Ev("error", 0, <<>>))
    /\ segFailed' = TRUE
    /\ segDone' = TRUE
    /\ inflight' = "none"
    /\ fpc' = "try"
    /\ UNCHANGED <<model, mainVars, fn, doc, content, thread, ret, calls,
                   fcalls, segText, anaStarted, anaFailed>>

\* lines 101-103: the provider call raises; st.error and return []
SepProviderRaise ==
    /\ fn = "separate_threads" /\ fpc = "await" /\ inflight = "seg"
    /\ out' = Append(out, Ev("error", 0, <<>>))
    /\ ret' = SepExceptReturn
    /\ segFailed' = TRUE
    /\ segDone' = TRUE
    /\ inflight' = "none"
    /\ fpc' = "returned"
    /\ doc' = <<>> /\ content' = <<>>
    /\ UNCHANGED <<model, mainVars, fn, thread, calls, fcalls, segText,
                   anaStarted, anaFailed>>

----------------------------------------------------------------------------
(* analyze_thread *)

\* lines 132-164: the branch on `model` issues the provider call; when no
\* branch matches, the function ends and returns None
AnaIssue ==
    /\ fn = "analyze_thread" /\ fpc = "entry"
    /\ IF model \in KnownModels
       THEN /\ inflight' = "ana"
            /\ calls' = calls + 1
            /\ fcalls' = fcalls + 1
            /\ fpc' = "await"
            /\ UNCHANGED ret
       ELSE /\ ret' = NoneVal
            /\ fpc' = "returned"
            /\ UNCHANGED <<inflight, calls, fcalls>>
    /\ UNCHANGED <<model, mainVars, out, fn, doc, content, thread, hist>>

\* lines 145, 154, 164: the provider returns text, returned as it is
AnaProviderReturn ==
    /\ fn = "analyze_thread" /\ fpc = "await" /\ inflight = "ana"
    /\ \E g \in GenTexts : ret' = StrVal(g)
    /\ inflight' = "none"
    /\ fpc' = "returned"
    /\ UNCHANGED <<model, mainVars, out, fn, doc, content, thread, calls,
                   fcalls, hist>>

\* lines 132-164 hold no try: the exception of the provider call leaves the
\* function
AnaProviderRaise ==
    /\ fn = "analyze_thread" /\ fpc = "await" /\ inflight = "ana"
    /\ anaFailed' = anaFailed \cup {i}
    /\ inflight' = "none"
    /\ fpc' = "raised"
    /\ UNCHANGED <<model, mainVars, out, fn, doc, content, thread, ret, calls,
                   fcalls, segDone, segFailed, segText, anaStarted>>

----------------------------------------------------------------------------
(* main *)

\* lines 196-198: the button is pressed; separate_threads is called with the
\* text of the uploaded file
Click ==
    /\ mpc = "start"
    /\ \E d \in Docs : doc' = d /\ content' = d
    /\ fn' = "separate_threads"
    /\ fpc' = "entry"
    /\ fcalls' = 0
    /\ mpc' = "sep"
    /\ UNCHANGED <<model, threads, i, exc, out, thread, ret, inflight, calls,
                   hist>>

\* a main that goes on to the loop while the segmentation request is pending
MainFoundEarly ==
    /\ mpc = "sep" /\ fn = "separate_threads" /\ fpc = "await"
    /\ threads' = ListVal(<< <<>> >>)
    /\ out' = Append(out, Ev("found", 1, <<>>))
    /\ i' = 1
    /\ mpc' = "loop"
    /\ fn' = "none" /\ fpc' = "none"
    /\ UNCHANGED <<model, exc, doc, content, thread, ret, inflight, calls,
                   fcalls, hist>>

\* lines 198-202: separate_threads has returned; `threads` is bound,
\* len(threads) is written (a TypeError when it is None) and the loop begins
MainFound ==
    /\ mpc = "sep" /\ fn = "separate_threads" /\ fpc = "returned"
    /\ threads' = ret
    /\ IF ret.kind = "list"
       THEN /\ out' = Append(out, Ev("found", Len(ret.val), <<>>))
            /\ i' = 1
            /\ mpc' = "loop"
            /\ UNCHANGED exc
       ELSE /\ exc' = "TypeError"
            /\ mpc' = "crashed"
            /\ UNCHANGED <<out, i>>
    /\ fn' = "none" /\ fpc' = "none"
    /\ UNCHANGED <<model, doc, content, thread, ret, inflight, calls, fcalls,
                   hist>>

\* lines 202-207: the next thread of enumerate(threads, 1) is shown under its
\* index and analyze_thread is called with it
MainLoopBody ==
    /\ mpc = "loop" /\ i <= Len(threads.val)
    /\ out' = out \o <<Ev("subheader", i, <<>>), Ev("thread", i, threads.val[i])>>
    /\ thread' = threads.val[i]
    /\ fn' = "analyze_thread"
    /\ fpc' = "entry"
    /\ fcalls' = 0
    /\ anaStarted' = anaStarted \cup {i}
    /\ mpc' = "ana"
    /\ UNCHANGED <<model, threads, i, exc, doc, content, ret, inflight, calls,
                   segDone, segFailed, segText, anaFailed>>

\* lines 207-211: analyze_thread has returned; its value is written
MainWriteAnalysis ==
    /\ mpc = "ana" /\ fn = "analyze_thread" /\ fpc = "returned"
    /\ out' = Append(out, Ev("analysis", i, ret.val))
    /\ i' = i + 1
    /\ mpc' = "loop"
    /\ fn' = "none" /\ fpc' = "none"
    /\ thread' = <<>>
    /\ UNCHANGED <<model, threads, exc, doc, content, ret, inflight, calls,
                   fcalls, hist>>

\* line 207: the exception of analyze_thread is caught nowhere in main
MainPropagate ==
    /\ mpc = "ana" /\ fn = "analyze_thread" /\ fpc = "raised"
    /\ exc' = "ProviderError"
    /\ mpc' = "crashed"
    /\ fn' = "none" /\ fpc' = "none"
    /\ thread' = <<>>
    /\ UNCHANGED <<model, threads, i, out, doc, content, ret, inflight, calls,
                   fcalls, hist>>

\* line 202: enumerate(threads, 1) is exhausted; main returns
MainLoopExit ==
    /\ mpc = "loop" /\ i > Len(threads.val)
    /\ mpc' = "done"
    /\ UNCHANGED <<model, threads, i, exc, out, fn, fpc, doc, content, thread,
                   ret, inflight, calls, fcalls, hist>>

----------------------------------------------------------------------------
(* direct calls of the two functions *)

\* separate_threads(content, model, ...) called with any provider identity
CallSeparate ==
    /\ mpc = "caller" /\ fn = "none"
    /\ \E d \in Docs : doc' = d /\ content' = d
    /\ fn' = "separate_threads"
    /\ fpc' = "entry"
    /\ fcalls' = 0
    /\ UNCHANGED <<model, mainVars, out, thread, ret, inflight, calls, hist>>

\* analyze_thread(thread, model, ...) called with any provider identity
CallAnalyze ==
    /\ mpc = "caller" /\ fn = "none"
    /\ \E t \in ThreadArgs : thread' = t
    /\ fn' = "analyze_thread"
    /\ fpc' = "entry"
    /\ fcalls' = 0
    /\ UNCHANGED <<model, mainVars, out, doc, content, ret, inflight, calls,
                   hist>>

----------------------------------------------------------------------------
(* Specifications *)

Next ==
    \/ Click
    \/ SepTruncate
    \/ SepIssue
    \/ SepProviderReturn
    \/ SepProviderRaise
    \/ MainFound
    \/ MainLoopBody
    \/ AnaIssue
    \/ AnaProviderReturn
    \/ AnaProviderRaise
    \/ MainWriteAnalysis
    \/ MainPropagate
    \/ MainLoopExit

\* one run of main() after the button is pressed
Spec == Init /\ [][Next]_vars

NextCall ==
    \/ CallSeparate
    \/ CallAnalyze
    \/ SepTruncate
    \/ SepIssue
    \/ SepProviderReturn
    \/ SepProviderRaise
    \/ AnaIssue
    \/ AnaProviderReturn
    \/ AnaProviderRaise

\* one call of separate_threads or analyze_thread with any provider identity
SpecCall == InitCall /\ [][NextCall]_vars

----------------------------------------------------------------------------
(* What a run shows *)

\* main() has returned or has been left by an exception
RunEnded == mpc \in {"done", "crashed"}

OfKind(kind) == SelectSeq(out, LAMBDA e : e.kind = kind)

\* the analyses written by line 209
Results == OfKind("analysis")

ErrorShown == Len(OfKind("error")) > 0

Warned == Len(OfKind("warning")) > 0

HasAnalysis(j) == \E k \in 1..Len(out) : out[k].kind = "analysis" /\ out[k].idx = j

NumThreads == Len(threads.val)

Min(a, b) == IF a < b THEN a ELSE b

\* the pieces put together again with a line break between them
RECURSIVE Join(_)
Join(ss) ==
    IF Len(ss) = 0 THEN <<>>
    ELSE IF Len(ss) = 1 THEN ss[1]
    ELSE ss[1] \o <<NL>> \o Join(Tail(ss))

CountNL(s) == Cardinality({p \in 1..Len(s) : s[p] = NL})

\* what happened in the run
Outcome ==
    IF segFailed THEN "segmentation failed"
    ELSE IF anaFailed # {} THEN "analysis failed"
    ELSE "analysed"

\* what the caller of the run is given: the threads and the exception
Observed ==
    IF threads.kind = "list" /\ Len(threads.val) = 0 THEN "segmentation failed"
    ELSE IF exc # "none" THEN "analysis failed"
    ELSE "analysed"

----------------------------------------------------------------------------
(* Claims *)

\* C1: when the provider call of analyze_thread fails for some thread, every
\* other thread of the run is still analysed and its analysis is reported.
C1_FailureIsolation ==
    (RunEnded /\ anaFailed # {}) =>
        \A j \in 1..NumThreads :
            j \in anaStarted /\ (j \notin anaFailed => HasAnalysis(j))

\* C2: when the run ends, the number of analyses produced equals the number
\* of threads segmentation produced.
C2_ResultCount ==
    (RunEnded /\ threads.kind = "list") => Len(Results) = NumThreads

\* C3: when the provider call of separate_threads fails, an error is shown,
\* analyze_thread is never invoked and the run produces no analysis.
C3_SegFailure ==
    segFailed =>
        /\ ErrorShown
        /\ anaStarted = {}
        /\ fn # "analyze_thread"
        /\ Results = <<>>
        /\ calls = 1
        /\ mpc # "crashed"

C3_Witness == segFailed /\ mpc = "done"

\* C4: with a provider identity that is not one of the known backends, a call
\* of separate_threads or analyze_thread makes no provider call and ends in an
\* error, never in a returned value.
C4_UnknownIsConfigError ==
    (model \notin KnownModels /\ fn # "none") =>
        /\ calls = 0
        /\ fpc # "returned"

\* C5: what a run gives its caller tells a failed segmentation, a failed
\* analysis and a run without failure apart; the value separate_threads
\* returns after a failed provider call is returned after no successful one.
C5_Distinguishable ==
    /\ (fn = "separate_threads" /\ fpc = "returned") =>
           /\ ret.kind = "list"
           /\ segFailed <=> Len(ret.val) = 0
    /\ segDone => (segFailed <=> ErrorShown)
    /\ RunEnded => Observed = Outcome

C5_Witness == RunEnded /\ segDone /\ ~segFailed /\ segText = <<>>

\* C6: the content put into the segmentation prompt is the first
\* min(len(doc), 16000) characters of the document: the document itself and
\* no warning when it is no longer than 16000, exactly 16000 characters and
\* the warning when it is longer.
C6_Truncation ==
    (fn = "separate_threads" /\ fpc \in {"try", "await"}) =>
        /\ content = [k \in 1..Min(Len(doc), limitChars) |-> doc[k]]
        /\ Len(doc) <= limitChars => (content = doc /\ ~Warned)
        /\ Len(doc) > limitChars => (Len(content) = limitChars /\ Warned)
        /\ limitChars = 16000

C6_Witness ==
    fn = "separate_threads" /\ fpc = "await" /\ Len(doc) > limitChars

\* C7: no analyze_thread call is issued before the provider call of
\* segmentation has returned or failed, nor while it is pending.
C7_SegBeforeAnalysis ==
    /\ (anaStarted # {} \/ fn = "analyze_thread" \/ inflight = "ana") =>
           (segDone /\ inflight # "seg")
    /\ inflight = "seg" => (anaStarted = {} /\ ~segDone)

C7_Witness == inflight = "ana" /\ i = 2

\* C8: an analysis error never ends the run: once an analysis has failed the
\* run still goes on to Done.
C8_AnalysisErrorContained ==
    anaFailed # {} => (mpc # "crashed" /\ exc = "none")

C10_NoRetry ==
    /\ fcalls <= 1
    /\ calls <= 1 + Cardinality(anaStarted)
    /\ threads.kind = "list" => calls <= 1 + NumThreads
    /\ segFailed => calls = 1

C10_Witness ==
    RunEnded /\ anaFailed # {} /\ calls = 1 + NumThreads /\ NumThreads >= 2

====
